---- MODULE Spec2Model ----
(***************************************************************************)
(* State-machine model of src/main.py: the /ws endpoint of the source      *)
(* finder backend.  Every connection runs websocket_endpoint as one        *)
(* asyncio task on the single event-loop thread of the server.  The        *)
(* reasoning model, the tool provider and the gate model are the           *)
(* environment: their answers are drawn from small sets.                   *)
(***************************************************************************)
EXTENDS Integers, Sequences, FiniteSets, TLC

\* ------------------------------------------------------------------ bounds

\* Cap on the number of reasoning-model calls made by all connections together.
MaxCalls == 2

\* The connections served by the process.
Conns == {"c1", "c2"}

\* ------------------------------------------------- program constants

\* main.py:42-46
function_defintions ==
    {"BRAVE_SEARCH__NEWS_SEARCH", "BRAVE_SEARCH__WEB_SEARCH",
     "BRAVE_SEARCH__IMAGE_SEARCH", "BRAVE_SEARCH__VIDEO_SEARCH",
     "EXA_AI__GET_CONTENTS", "EXA_AI__FINDSIMILAR", "EXA_AI__SEARCH"}

\* main.py:26
LINKED_ACCOUNT_OWNER_ID == "owner"

\* main.py:33-40
prompt == "You are a source finding agent ..."

\* Python's None, and no task / no exception.
NoneValue == "<None>"

\* ------------------------------------------------ environment's answers

\* Inbound text payloads.
UserMessages == {"q1"}

\* response.choices[0].message.content: None or a text.
Contents == {NoneValue, "answer"}

\* The tool calls the reasoning model may ask for, <<name, arguments>>: a
\* tool of the registry with a JSON text, the same with a text that is not
\* JSON, and a tool that is not in the registry (the model's output is not
\* constrained by the code).
ModelToolCalls ==
    {<<"BRAVE_SEARCH__WEB_SEARCH", "{'query': 'x'}">>,
     <<"BRAVE_SEARCH__WEB_SEARCH", "{'query">>,
     <<"GMAIL__SEND_EMAIL", "{'query': 'x'}">>}

\* A further tool call the reasoning model may put behind the first one of a
\* response (tool_calls is a list).
ModelSecondCall == <<"EXA_AI__SEARCH", "{'query': 'x'}">>

\* What aci.handle_function_call returns when it returns: an opaque document
\* the code only serializes.
ToolResults == {"success"}

\* What the gate model answers.
GateTexts == {"yes", "Yes", "yes."}

VARIABLES
    pc,               \* per connection: the place of its task in websocket_endpoint
    connected,        \* per connection: the client's end of the channel is open
    message,          \* local `message`
    chat_history,     \* local `chat_history`
    response,         \* the reasoning response: [content, tool_calls]
    function_result,  \* local `function_result`
    grok,             \* what grok_search returned (`response` of line 172)
    exc,              \* the exception raised last (`e`), NoneValue when none
    events,           \* what the client was sent since its last inbound message
                      \* (each tagged with the round that sent it)
    round,            \* reasoning calls made for the current user message
    request,          \* the arguments of the latest reasoning call
    gateCalls,        \* grok_search calls made since the latest reasoning call
    gateRequest,      \* the latest gate call: [summary, history, round]
    viaRetry,         \* the latest reasoning call follows a Retry of the gate
    blocker,          \* the task inside a synchronous call, holding the thread
    calls,            \* reasoning calls made by the process
    providerCalls     \* the calls that reached aci.handle_function_call

vars == <<pc, connected, message, chat_history, response, function_result, grok,
          exc, events, round, request, gateCalls, gateRequest, viaRetry,
          blocker, calls, providerCalls>>

\* ----------------------------------------------------------- pure helpers

\* Faulty variant: every content counts, None too.
TruthyAlways(c) == TRUE

\* Python truthiness of `content` (None and "" are falsy).
Truthy(c) == c \notin {NoneValue, ""}

\* json.loads accepts the text.
JsonValid(a) == a = "{'query': 'x'}"

\* json.loads(tool_call.function.arguments)
JsonLoads(a) == <<"parsed", a>>

\* json.dumps(function_result): the result's JSON text on one line.
JsonDumps(v) ==
    CASE v = "success" -> "{'success': true}"
      [] v = "failure" -> "{'success': false}"

\* json.dumps(function_result, indent=2): the same document, indented.
JsonDumpsIndent(v) ==
    CASE v = "success" -> "{|  'success': true|}"
      [] v = "failure" -> "{|  'success': false|}"

\* The turns appended to chat_history.
AssistantMessageTurn(content) == [role |-> "assistant", content |-> content]

AssistantToolRequestTurn(tool_call) ==
    [role |-> "assistant", tool_calls |-> <<tool_call>>]

\* Faulty variant: the result turn does not carry the call's id.
ToolResultTurnWrongId(tool_call, result) ==
    [role |-> "tool", tool_call_id |-> 0, content |-> JsonDumps(result)]

\* main.py:159
ToolResultTurn(tool_call, result) ==
    [role |-> "tool", tool_call_id |-> tool_call.id, content |-> JsonDumps(result)]

IsToolRequest(t) == "tool_calls" \in DOMAIN t
IsToolResult(t) == t.role = "tool"

\* msg.get('content'): the value, or None when the key is missing.
GetContent(t) == IF "content" \in DOMAIN t THEN t.content ELSE NoneValue

\* main.py:167-171: one "role: content" line per turn with a truthy content.
RECURSIVE ChatSummary(_)
ChatSummary(h) ==
    IF h = <<>> THEN <<>>
    ELSE LET rest == ChatSummary(Tail(h))
         IN IF Truthy(GetContent(Head(h)))
            THEN <<<<Head(h).role, Head(h).content>>>> \o rest
            ELSE rest

\* json.dumps of the error event succeeds: a tool-request turn holds the
\* client library's tool-call object, which json cannot serialize.
JsonSerializable(h) == \A i \in 1..Len(h) : ~IsToolRequest(h[i])

\* Faulty variant: the last tool call of the response is the one taken.
FirstToolCallLast(resp) ==
    IF resp.tool_calls # <<>> THEN resp.tool_calls[Len(resp.tool_calls)]
    ELSE NoneValue

\* response.choices[0].message.tool_calls[0] if ...tool_calls else None
FirstToolCall(resp) ==
    IF resp.tool_calls # <<>> THEN resp.tool_calls[1] ELSE NoneValue

\* -------------------------------------------------------- channel, handlers

\* Faulty variant: the new event overtakes the ones sent before it.
EmitReordered(evs, e) == <<e>> \o evs

\* websocket.send_json on an open channel: events reach the client in the
\* order of the sends.
Emit(evs, e) == Append(evs, e)

\* What a send or a receive on a channel whose client is gone raises
\* (the framework's version decides which).
ChannelFailures == {"WebSocketDisconnect", "RuntimeError"}

\* Faulty variant: the wait for the message stands inside the inner try.
CaughtByInnerAlways(e, inInnerTry) == "inner"

\* Faulty variant: the inner loop has no handler of its own.
CaughtByOuterAlways(e, inInnerTry) ==
    IF e = "TimeoutError" THEN "timeout"
    ELSE IF e = "WebSocketDisconnect" THEN "disconnect"
    ELSE "outer"

\* The handler that catches exception e: main.py:180 for everything raised
\* inside the inner try, else main.py:188, 191 or 195 by its type.
CaughtBy(e, inInnerTry) ==
    IF inInnerTry THEN "inner"
    ELSE IF e = "TimeoutError" THEN "timeout"
    ELSE IF e = "WebSocketDisconnect" THEN "disconnect"
    ELSE "outer"

\* Faulty variant: an outer handler goes on with the outer loop.
ThrowKeepsLooping(s, e, inInnerTry) ==
    /\ exc' = [exc EXCEPT ![s] = e]
    /\ pc' = [pc EXCEPT ![s] =
                IF CaughtBy(e, inInnerTry) = "inner" THEN "Errored"
                ELSE "AwaitingInput"]

\* Exception e is raised in the task of connection s: the inner handler
\* goes on to report it (main.py:180-186), the three outer ones end the task
\* (main.py:188-196).
Throw(s, e, inInnerTry) ==
    /\ exc' = [exc EXCEPT ![s] = e]
    /\ pc' = [pc EXCEPT ![s] =
                IF CaughtBy(e, inInnerTry) = "inner" THEN "Errored" ELSE "Closed"]

\* The event-loop thread is free: no task is inside a synchronous call
\* (main.py:59, 102 and 144 call blocking clients from async functions, and
\* an asyncio task gives the thread up only at an await).
LoopFree == blocker = NoneValue

ProgressEvent(content, r) == [type |-> "progress", content |-> content, round |-> r]
MessageEvent(content, r) == [type |-> "message", content |-> content, round |-> r]
\* Faulty variant: the completion notice goes out as a progress event.
FinalEventAsProgress(r) ==
    [type |-> "progress", content |-> <<"Task Completed">>, round |-> r]

FinalEvent(r) == [type |-> "final", content |-> "Task Completed", round |-> r]
ErrorEvent(e, h, r) ==
    [type |-> "error", content |-> e, chat_history |-> h, round |-> r]

\* ------------------------------------------------------------------ Init

\* Before the first call of a connection: no response has come (main.py:102),
\* and the records of what was passed to the reasoning model (main.py:102-116)
\* and to the gate (main.py:172) hold nothing.
NoResponse == [content |-> NoneValue, tool_calls |-> <<>>]
NoRequest ==
    [system |-> prompt, user |-> NoneValue, history |-> <<>>,
     tools |-> function_defintions]
NoGateRequest == [query |-> <<>>, history |-> <<>>, round |-> 0]

\* After websocket.accept() (main.py:79) on every connection.
Init ==
    /\ pc = [s \in Conns |-> "AwaitingInput"]
    /\ connected = [s \in Conns |-> TRUE]
    /\ message = [s \in Conns |-> NoneValue]
    /\ chat_history = [s \in Conns |-> <<>>]
    /\ response = [s \in Conns |-> NoResponse]
    /\ function_result = [s \in Conns |-> NoneValue]
    /\ grok = [s \in Conns |-> NoneValue]
    /\ exc = [s \in Conns |-> NoneValue]
    /\ events = [s \in Conns |-> <<>>]
    /\ round = [s \in Conns |-> 0]
    /\ request = [s \in Conns |-> NoRequest]
    /\ gateCalls = [s \in Conns |-> 0]
    /\ gateRequest = [s \in Conns |-> NoGateRequest]
    /\ viaRetry = [s \in Conns |-> FALSE]
    /\ blocker = NoneValue
    /\ calls = 0
    /\ providerCalls = {}

\* ------------------------------------------------- the client, the clock

\* The client closes its end; the task notices at its next send or receive.
Disconnect(s) ==
    /\ connected[s]
    /\ pc[s] # "Closed"
    /\ connected' = [connected EXCEPT ![s] = FALSE]
    /\ UNCHANGED <<pc, message, chat_history, response, function_result, grok,
                   exc, events, round, request, gateCalls, gateRequest,
                   viaRetry, blocker, calls, providerCalls>>

\* main.py:86-90: a text payload arrives.
Receive(s) ==
    /\ pc[s] = "AwaitingInput"
    /\ LoopFree
    /\ connected[s]
    /\ \E m \in UserMessages : message' = [message EXCEPT ![s] = m]
    /\ pc' = [pc EXCEPT ![s] = "SendProcessing"]
    /\ events' = [events EXCEPT ![s] = <<>>]
    /\ exc' = [exc EXCEPT ![s] = NoneValue]
    /\ UNCHANGED <<connected, chat_history, response, function_result, grok,
                   round, request, gateCalls, gateRequest, viaRetry, blocker,
                   calls, providerCalls>>

\* main.py:86-89, 188-190: asyncio.wait_for gives up after 600 s.
Timeout(s) ==
    /\ pc[s] = "AwaitingInput"
    /\ LoopFree
    /\ Throw(s, "TimeoutError", FALSE)
    /\ UNCHANGED <<connected, message, chat_history, response, function_result,
                   grok, events, round, request, gateCalls, gateRequest,
                   viaRetry, blocker, calls, providerCalls>>

\* main.py:86-87, 191-193: receive_text on a channel whose client is gone.
ReceiveDisconnected(s) ==
    /\ pc[s] = "AwaitingInput"
    /\ LoopFree
    /\ ~connected[s]
    /\ Throw(s, "WebSocketDisconnect", FALSE)
    /\ UNCHANGED <<connected, message, chat_history, response, function_result,
                   grok, events, round, request, gateCalls, gateRequest,
                   viaRetry, blocker, calls, providerCalls>>

\* Faulty variant: the turns of the previous exchange are kept.
NewHistoryKeepsOld(old, msg) == old

\* Faulty variant: the history starts with the user's message.
NewHistoryWithUserTurn(old, msg) == <<[role |-> "user", content |-> msg]>>

\* main.py:97: chat_history = [], whatever it held and whatever the message.
NewHistory(old, msg) == <<>>

\* main.py:92-97: the first progress event, then chat_history = [].
SendProcessing(s) ==
    /\ pc[s] = "SendProcessing"
    /\ LoopFree
    /\ \/ /\ connected[s]
          /\ events' = [events EXCEPT ![s] =
                          Emit(@, ProgressEvent(<<"Processing your request...">>, 0))]
          /\ chat_history' = [chat_history EXCEPT ![s] = NewHistory(@, message[s])]
          /\ round' = [round EXCEPT ![s] = 0]
          /\ viaRetry' = [viaRetry EXCEPT ![s] = FALSE]
          /\ pc' = [pc EXCEPT ![s] = "Reasoning"]
          /\ UNCHANGED exc
       \/ /\ ~connected[s]
          /\ \E e \in ChannelFailures : Throw(s, e, FALSE)
          /\ UNCHANGED <<events, chat_history, round, viaRetry>>
    /\ UNCHANGED <<connected, message, response, function_result, grok, request,
                   gateCalls, gateRequest, blocker, calls, providerCalls>>

\* ------------------------------------------------------- the inner loop

\* The tool call with id i for <<name, arguments>>.
ToolCall(i, c) == [id |-> i, function |-> [name |-> c[1], arguments |-> c[2]]]

\* What the reasoning model may answer in round r: no tool call, one tool
\* call whose id is fresh for the exchange, or two tool calls.
ToolCallChoices(r) ==
    {<<>>} \cup
    {<<ToolCall(r, c)>> : c \in ModelToolCalls} \cup
    {<<ToolCall(r, <<"BRAVE_SEARCH__WEB_SEARCH", "{'query': 'x'}">>),
       ToolCall(-r, ModelSecondCall)>>}

\* Faulty variant: the inner loop gives up after its first round.
LoopConditionCapped(r) == r < 1

\* main.py:100: `while True:`, whatever the number r of rounds made.
LoopCondition(r) == TRUE

\* main.py:100-116: the loop goes round and the synchronous call of the
\* reasoning model begins; the task keeps the event-loop thread until the
\* call returns.
CallReasoning(s) ==
    /\ pc[s] = "Reasoning"
    /\ LoopFree
    /\ calls < MaxCalls
    /\ LoopCondition(round[s])
    /\ request' = [request EXCEPT ![s] =
                     [system |-> prompt, user |-> message[s],
                      history |-> chat_history[s], tools |-> function_defintions]]
    /\ round' = [round EXCEPT ![s] = @ + 1]
    /\ calls' = calls + 1
    /\ gateCalls' = [gateCalls EXCEPT ![s] = 0]
    /\ blocker' = s
    /\ pc' = [pc EXCEPT ![s] = "InReasoningCall"]
    /\ UNCHANGED <<connected, message, chat_history, response, function_result,
                   grok, exc, events, gateRequest, viaRetry, providerCalls>>

\* main.py:102, 118-123: the call returns a response.
ReasoningReturn(s) ==
    /\ pc[s] = "InReasoningCall"
    /\ blocker = s
    /\ \E c \in Contents, tcs \in ToolCallChoices(round[s]) :
          response' = [response EXCEPT ![s] = [content |-> c, tool_calls |-> tcs]]
    /\ blocker' = NoneValue
    /\ pc' = [pc EXCEPT ![s] = "Content"]
    /\ UNCHANGED <<connected, message, chat_history, function_result, grok, exc,
                   events, round, request, gateCalls, gateRequest, viaRetry,
                   calls, providerCalls>>

\* main.py:102, 180: the call raises (network, quota, malformed response).
ReasoningRaise(s) ==
    /\ pc[s] = "InReasoningCall"
    /\ blocker = s
    /\ blocker' = NoneValue
    /\ Throw(s, "APIError", TRUE)
    /\ UNCHANGED <<connected, message, chat_history, response, function_result,
                   grok, events, round, request, gateCalls, gateRequest,
                   viaRetry, calls, providerCalls>>

\* main.py:124-130: a truthy content is sent as a message event and appended.
HandleContent(s) ==
    /\ pc[s] = "Content"
    /\ LoopFree
    /\ LET content == response[s].content
       IN \/ /\ ~Truthy(content)
             /\ pc' = [pc EXCEPT ![s] = "ToolBranch"]
             /\ UNCHANGED <<exc, events, chat_history>>
          \/ /\ Truthy(content)
             /\ connected[s]
             /\ events' = [events EXCEPT ![s] =
                             Emit(@, MessageEvent(content, round[s]))]
             /\ chat_history' = [chat_history EXCEPT ![s] =
                                   Append(@, AssistantMessageTurn(content))]
             /\ pc' = [pc EXCEPT ![s] = "ToolBranch"]
             /\ UNCHANGED exc
          \/ /\ Truthy(content)
             /\ ~connected[s]
             /\ \E e \in ChannelFailures : Throw(s, e, TRUE)
             /\ UNCHANGED <<events, chat_history>>
    /\ UNCHANGED <<connected, message, response, function_result, grok, round,
                   request, gateCalls, gateRequest, viaRetry, blocker, calls,
                   providerCalls>>

\* Faulty variant: the tool branch is never taken.
HasToolCallNever(resp) == FALSE

\* Faulty variant: a response with a content is never taken for a tool request.
HasToolCallOnlyWithoutContent(resp) ==
    resp.tool_calls # <<>> /\ ~Truthy(resp.content)

\* main.py:119-123, 133: `if tool_call:`, tool_call being the first tool call
\* of the response, or None when it has none.
HasToolCall(resp) == resp.tool_calls # <<>>

\* main.py:133-142: the tool branch sends the call's progress event and
\* appends the tool-request turn.
AnnounceToolCall(s) ==
    /\ pc[s] = "ToolBranch"
    /\ LoopFree
    /\ HasToolCall(response[s])
    /\ LET tool_call == FirstToolCall(response[s])
       IN \/ /\ connected[s]
             /\ events' = [events EXCEPT ![s] =
                   Emit(@, ProgressEvent(<<"Function Call", tool_call.function.name,
                                           tool_call.function.arguments>>, round[s]))]
             /\ chat_history' = [chat_history EXCEPT ![s] =
                                   Append(@, AssistantToolRequestTurn(tool_call))]
             /\ pc' = [pc EXCEPT ![s] = "ToolDispatch"]
             /\ UNCHANGED exc
          \/ /\ ~connected[s]
             /\ \E e \in ChannelFailures : Throw(s, e, TRUE)
             /\ UNCHANGED <<events, chat_history>>
    /\ UNCHANGED <<connected, message, response, function_result, grok, round,
                   request, gateCalls, gateRequest, viaRetry, blocker, calls,
                   providerCalls>>

\* main.py:161-165: the other branch sends the final event.
SendFinal(s) ==
    /\ pc[s] = "ToolBranch"
    /\ LoopFree
    /\ ~HasToolCall(response[s])
    /\ \/ /\ connected[s]
          /\ events' = [events EXCEPT ![s] = Emit(@, FinalEvent(round[s]))]
          /\ pc' = [pc EXCEPT ![s] = "Gating"]
          /\ UNCHANGED exc
       \/ /\ ~connected[s]
          /\ \E e \in ChannelFailures : Throw(s, e, TRUE)
          /\ UNCHANGED events
    /\ UNCHANGED <<connected, message, chat_history, response, function_result,
                   grok, round, request, gateCalls, gateRequest, viaRetry,
                   blocker, calls, providerCalls>>

\* main.py:144-150: the arguments are parsed, then the synchronous call of
\* the tool provider begins.  Nothing in between looks at the name.
CallTool(s) ==
    /\ pc[s] = "ToolDispatch"
    /\ LoopFree
    /\ LET tool_call == FirstToolCall(response[s])
       IN \/ /\ JsonValid(tool_call.function.arguments)
             /\ providerCalls' = providerCalls \cup
                   {[name |-> tool_call.function.name,
                     arguments |-> JsonLoads(tool_call.function.arguments),
                     linked_account_owner_id |-> LINKED_ACCOUNT_OWNER_ID,
                     allowed_apps_only |-> TRUE]}
             /\ blocker' = s
             /\ pc' = [pc EXCEPT ![s] = "InToolCall"]
             /\ UNCHANGED exc
          \/ /\ ~JsonValid(tool_call.function.arguments)
             /\ Throw(s, "JSONDecodeError", TRUE)
             /\ UNCHANGED <<providerCalls, blocker>>
    /\ UNCHANGED <<connected, message, chat_history, response, function_result,
                   grok, events, round, request, gateCalls, gateRequest,
                   viaRetry, calls>>

\* main.py:144: the provider returns a result (of a success or of a failure).
ToolReturn(s) ==
    /\ pc[s] = "InToolCall"
    /\ blocker = s
    /\ \E r \in ToolResults :
          function_result' = [function_result EXCEPT ![s] = r]
    /\ blocker' = NoneValue
    /\ pc' = [pc EXCEPT ![s] = "ToolResult"]
    /\ UNCHANGED <<connected, message, chat_history, response, grok, exc, events,
                   round, request, gateCalls, gateRequest, viaRetry, calls,
                   providerCalls>>

\* main.py:144, 180: the provider call raises (rate limit, network); no
\* handler stands between the call and the inner try's.
ToolRaise(s) ==
    /\ pc[s] = "InToolCall"
    /\ blocker = s
    /\ blocker' = NoneValue
    /\ Throw(s, "ProviderError", TRUE)
    /\ UNCHANGED <<connected, message, chat_history, response, function_result,
                   grok, events, round, request, gateCalls, gateRequest,
                   viaRetry, calls, providerCalls>>

\* main.py:152-159: the result's progress event, then the tool-result turn;
\* the loop goes round.
SendToolResult(s) ==
    /\ pc[s] = "ToolResult"
    /\ LoopFree
    /\ LET tool_call == FirstToolCall(response[s])
           function_result_str == JsonDumpsIndent(function_result[s])
       IN \/ /\ connected[s]
             /\ events' = [events EXCEPT ![s] =
                   Emit(@, ProgressEvent(<<"Function Result", function_result_str>>,
                                         round[s]))]
             /\ chat_history' = [chat_history EXCEPT ![s] =
                   Append(@, ToolResultTurn(tool_call, function_result[s]))]
             /\ viaRetry' = [viaRetry EXCEPT ![s] = FALSE]
             /\ pc' = [pc EXCEPT ![s] = "Reasoning"]
             /\ UNCHANGED exc
          \/ /\ ~connected[s]
             /\ \E e \in ChannelFailures : Throw(s, e, TRUE)
             /\ UNCHANGED <<events, chat_history, viaRetry>>
    /\ UNCHANGED <<connected, message, response, function_result, grok, round,
                   request, gateCalls, gateRequest, blocker, calls, providerCalls>>

\* main.py:166-172, 59-65: the transcript is flattened and the synchronous
\* call of the gate model begins.
CallGate(s) ==
    /\ pc[s] = "Gating"
    /\ LoopFree
    /\ gateRequest' = [gateRequest EXCEPT ![s] =
                         [query |-> ChatSummary(chat_history[s]),
                          history |-> chat_history[s], round |-> round[s]]]
    /\ gateCalls' = [gateCalls EXCEPT ![s] = @ + 1]
    /\ blocker' = s
    /\ pc' = [pc EXCEPT ![s] = "InGateCall"]
    /\ UNCHANGED <<connected, message, chat_history, response, function_result,
                   grok, exc, events, round, request, viaRetry, calls,
                   providerCalls>>

\* main.py:59: the gate model answers.
GateReturn(s) ==
    /\ pc[s] = "InGateCall"
    /\ blocker = s
    /\ \E t \in GateTexts : grok' = [grok EXCEPT ![s] = t]
    /\ blocker' = NoneValue
    /\ pc' = [pc EXCEPT ![s] = "GateFeedback"]
    /\ UNCHANGED <<connected, message, chat_history, response, function_result,
                   exc, events, round, request, gateCalls, gateRequest, viaRetry,
                   calls, providerCalls>>

\* main.py:59, 180: the gate call raises.
GateRaise(s) ==
    /\ pc[s] = "InGateCall"
    /\ blocker = s
    /\ blocker' = NoneValue
    /\ Throw(s, "GateError", TRUE)
    /\ UNCHANGED <<connected, message, chat_history, response, function_result,
                   grok, events, round, request, gateCalls, gateRequest,
                   viaRetry, calls, providerCalls>>

\* Faulty variant: the affirmation token is matched without regard to case.
GateDecisionAnyCase(resp, msg, hist) ==
    IF resp \in {"yes", "Yes"}
    THEN [break |-> TRUE, message |-> msg, chat_history |-> hist]
    ELSE [break |-> FALSE, message |-> resp, chat_history |-> hist]

\* Faulty variant: a Retry starts the history afresh.
GateDecisionResets(resp, msg, hist) ==
    IF resp = "yes"
    THEN [break |-> TRUE, message |-> msg, chat_history |-> hist]
    ELSE [break |-> FALSE, message |-> resp, chat_history |-> <<>>]

\* Faulty variant: the loop is left on every answer but the affirmation token.
GateDecisionInverted(resp, msg, hist) ==
    IF resp # "yes"
    THEN [break |-> TRUE, message |-> msg, chat_history |-> hist]
    ELSE [break |-> FALSE, message |-> resp, chat_history |-> hist]

\* main.py:173-177: `break` on the affirmation token, else the answer becomes
\* the message and the loop continues with chat_history as it is.
GateDecision(resp, msg, hist) ==
    IF resp = "yes"
    THEN [break |-> TRUE, message |-> msg, chat_history |-> hist]
    ELSE [break |-> FALSE, message |-> resp, chat_history |-> hist]

\* main.py:66-70, 172-177: grok_search sends its feedback event and returns;
\* the answer decides between leaving the inner loop and another round.
GateFeedback(s) ==
    /\ pc[s] = "GateFeedback"
    /\ LoopFree
    /\ \/ /\ connected[s]
          /\ events' = [events EXCEPT ![s] =
                Emit(@, ProgressEvent(<<"Feedback from Grok", grok[s]>>, round[s]))]
          /\ LET d == GateDecision(grok[s], message[s], chat_history[s])
             IN /\ message' = [message EXCEPT ![s] = d.message]
                /\ chat_history' = [chat_history EXCEPT ![s] = d.chat_history]
                /\ viaRetry' = [viaRetry EXCEPT ![s] = ~d.break]
                /\ pc' = [pc EXCEPT ![s] =
                            IF d.break THEN "AwaitingInput" ELSE "Reasoning"]
          /\ UNCHANGED exc
       \/ /\ ~connected[s]
          /\ \E e \in ChannelFailures : Throw(s, e, TRUE)
          /\ UNCHANGED <<events, message, chat_history, viaRetry>>
    /\ UNCHANGED <<connected, response, function_result, grok, round, request,
                   gateCalls, gateRequest, blocker, calls, providerCalls>>

\* main.py:180-186: the inner handler sends the error event with the
\* exception's text and chat_history; send_json serializes before it sends.
\* An exception raised here is outside the inner try.
ReportError(s) ==
    /\ pc[s] = "Errored"
    /\ LoopFree
    /\ \/ /\ ~JsonSerializable(chat_history[s])
          /\ Throw(s, "TypeError", FALSE)
          /\ UNCHANGED events
       \/ /\ JsonSerializable(chat_history[s])
          /\ ~connected[s]
          /\ \E e \in ChannelFailures : Throw(s, e, FALSE)
          /\ UNCHANGED events
       \/ /\ JsonSerializable(chat_history[s])
          /\ connected[s]
          /\ events' = [events EXCEPT ![s] =
                Emit(@, ErrorEvent(exc[s], chat_history[s], round[s]))]
          /\ pc' = [pc EXCEPT ![s] = "AwaitingInput"]
          /\ UNCHANGED exc
    /\ UNCHANGED <<connected, message, chat_history, response, function_result,
                   grok, round, request, gateCalls, gateRequest, viaRetry,
                   blocker, calls, providerCalls>>

\* ------------------------------------------------------------ the system

\* One step of the task of connection s.
TaskStep(s) ==
    \/ Receive(s)
    \/ Timeout(s)
    \/ ReceiveDisconnected(s)
    \/ SendProcessing(s)
    \/ CallReasoning(s)
    \/ ReasoningReturn(s)
    \/ ReasoningRaise(s)
    \/ HandleContent(s)
    \/ AnnounceToolCall(s)
    \/ SendFinal(s)
    \/ CallTool(s)
    \/ ToolReturn(s)
    \/ ToolRaise(s)
    \/ SendToolResult(s)
    \/ CallGate(s)
    \/ GateReturn(s)
    \/ GateRaise(s)
    \/ GateFeedback(s)
    \/ ReportError(s)

Next == \E s \in Conns : TaskStep(s) \/ Disconnect(s)

Spec == Init /\ [][Next]_vars

\* ----------------------------------------------------- claims' vocabulary

Last(h) == h[Len(h)]

\* The task is inside one of its three outbound calls.
InExternalCall(s) == pc[s] \in {"InReasoningCall", "InToolCall", "InGateCall"}

\* Places of the inner loop after the response of the round has arrived.
AfterResponse ==
    {"Content", "ToolBranch", "ToolDispatch", "InToolCall", "ToolResult",
     "Gating", "InGateCall", "GateFeedback"}

\* Every tool-request turn of h is immediately followed by a tool-result turn
\* with its tool_call_id, and every tool-result turn stands right after a
\* tool-request turn (so no request has two results).
WellPaired(h) ==
    /\ \A i \in 1..Len(h) :
          IsToolRequest(h[i]) =>
             /\ i < Len(h)
             /\ IsToolResult(h[i + 1])
             /\ h[i + 1].tool_call_id = h[i].tool_calls[1].id
    /\ \A i \in 1..Len(h) :
          IsToolResult(h[i]) => i > 1 /\ IsToolRequest(h[i - 1])

IsFunctionCallEvent(e) == e.type = "progress" /\ e.content[1] = "Function Call"
IsFunctionResultEvent(e) == e.type = "progress" /\ e.content[1] = "Function Result"
IsFeedbackEvent(e) == e.type = "progress" /\ e.content[1] = "Feedback from Grok"

\* ------------------------------------------------------------------ C1

\* C1: at every call of the reasoning model the history passed to it has
\* every tool-request turn immediately followed by exactly one tool-result
\* turn with the same tool_call_id.
Thm_C1 ==
    \A s \in Conns :
       pc[s] = "InReasoningCall" => WellPaired(request[s].history)

\* A reasoning call whose history holds a tool request.
Wit_C1 ==
    \E s \in Conns :
       /\ pc[s] = "InReasoningCall"
       /\ \E i \in 1..Len(request[s].history) : IsToolRequest(request[s].history[i])

\* ------------------------------------------------------------------ C2

\* C2: in every round the gate is called at most once; it is not called in
\* a round whose response asks for a tool, and it is called exactly once in
\* a round whose response does not, before the round's outcome is decided.
Thm_C2 ==
    \A s \in Conns :
       /\ gateCalls[s] <= 1
       /\ (pc[s] \in AfterResponse /\ response[s].tool_calls # <<>>) =>
             gateCalls[s] = 0
       /\ pc[s] \in {"Content", "ToolBranch", "Gating"} => gateCalls[s] = 0
       /\ pc[s] \in {"InGateCall", "GateFeedback"} =>
             gateCalls[s] = 1 /\ response[s].tool_calls = <<>>
       /\ (pc[s] = "Reasoning" /\ round[s] > 0) =>
             gateCalls[s] = (IF response[s].tool_calls = <<>> THEN 1 ELSE 0)

\* The gate has been called in a non-tool round that follows a tool round.
Wit_C2 ==
    \E s \in Conns :
       /\ pc[s] = "GateFeedback"
       /\ round[s] >= 2
       /\ gateCalls[s] = 1
       /\ \E i \in 1..Len(chat_history[s]) : IsToolResult(chat_history[s][i])

\* ------------------------------------------------------------------ C3

\* The provider call of connection s raises in this step.
ToolRaised(s) == pc[s] = "InToolCall" /\ exc'[s] = "ProviderError"

\* C3 as claimed: a provider error raised by the tool call is appended as a
\* tool-result turn with the request's tool_call_id and the session stays in
\* the inner loop, about to call the reasoning model again.
CE_C3 ==
    [][\A s \in Conns :
          ToolRaised(s) =>
             /\ pc'[s] = "Reasoning"
             /\ Len(chat_history'[s]) = Len(chat_history[s]) + 1
             /\ IsToolResult(Last(chat_history'[s]))
             /\ Last(chat_history'[s]).tool_call_id =
                   Last(chat_history[s]).tool_calls[1].id]_vars

\* C3 as amended: a provider error raised by the tool call appends nothing
\* and emits nothing; it takes the session to the inner handler (Errored)
\* with a history that ends in the unanswered tool-request turn, and from
\* there the session only goes to AwaitingInput or ends: no reasoning call
\* receives the failure.
Thm_C3 ==
    [][\A s \in Conns :
          /\ ToolRaised(s) =>
                /\ pc'[s] = "Errored"
                /\ chat_history'[s] = chat_history[s]
                /\ events'[s] = events[s]
                /\ chat_history[s] # <<>>
                /\ IsToolRequest(Last(chat_history[s]))
          /\ pc[s] = "Errored" =>
                /\ pc'[s] \in {"Errored", "AwaitingInput", "Closed"}
                /\ request'[s] = request[s]]_vars

\* The tool call has raised and the inner handler has the exception.
Wit_C3 ==
    \E s \in Conns :
       /\ pc[s] = "Errored"
       /\ exc[s] = "ProviderError"
       /\ IsToolRequest(Last(chat_history[s]))

\* ------------------------------------------------------------------ C4

\* C4 as claimed: a failure in the inner loop, the client still connected,
\* is answered by one error event with the exception's text and the history,
\* and the session is in AwaitingInput again.
CE_C4 ==
    [][\A s \in Conns :
          (pc[s] = "Errored" /\ connected[s] /\ connected'[s]
             /\ pc'[s] # "Errored") =>
             /\ pc'[s] = "AwaitingInput"
             /\ events'[s] =
                   Append(events[s], ErrorEvent(exc[s], chat_history[s], round[s]))]_vars

\* ------------------------------------------------------------------ C5

\* C5: the reasoning call that follows a Retry of the gate gets the gate's
\* answer as the user message and the history the gate was called on.
Thm_C5 ==
    \A s \in Conns :
       (pc[s] = "InReasoningCall" /\ viaRetry[s]) =>
          /\ request[s].user = grok[s]
          /\ request[s].history = gateRequest[s].history
          /\ request[s].history = chat_history[s]

\* A reasoning call after a Retry, with a history that is not empty.
Wit_C5 ==
    \E s \in Conns :
       /\ pc[s] = "InReasoningCall"
       /\ viaRetry[s]
       /\ request[s].history # <<>>
       /\ request[s].user = "Yes"

\* ------------------------------------------------------------------ C6

\* C6: when the gate's feedback has been sent, the inner loop is left for
\* AwaitingInput exactly when the answer is "yes" (the message kept, no call
\* made); any other answer becomes the message of another round; and
\* AwaitingInput is only left by a new inbound message or by the task's end.
Thm_C6 ==
    [][\A s \in Conns :
          /\ (pc[s] = "GateFeedback" /\ connected[s] /\ pc'[s] # pc[s]) =>
                /\ (grok[s] = "yes") <=> (pc'[s] = "AwaitingInput")
                /\ grok[s] = "yes" =>
                      /\ message'[s] = message[s]
                      /\ calls' = calls
                      /\ providerCalls' = providerCalls
                      /\ gateCalls'[s] = gateCalls[s]
                /\ grok[s] # "yes" =>
                      /\ pc'[s] = "Reasoning"
                      /\ message'[s] = grok[s]
          /\ (pc[s] = "AwaitingInput" /\ pc'[s] # pc[s]) =>
                pc'[s] \in {"SendProcessing", "Closed"}]_vars

\* One session has left the loop on "yes", another goes round on "Yes".
Wit_C6 ==
    \E s, t \in Conns :
       /\ pc[s] = "AwaitingInput" /\ grok[s] = "yes" /\ events[s] # <<>>
       /\ pc[t] = "Reasoning" /\ viaRetry[t] /\ message[t] = "Yes"

\* ------------------------------------------------------------------ C7

\* C7: the events of an exchange are in the order of the rounds; a
\* "Function Result" event stands right after the "Function Call" event of
\* its round, every later event belongs to a later round, and the tool is
\* executed after its call event and before any further event.
Thm_C7 ==
    \A s \in Conns :
       LET ev == events[s]
       IN /\ \A i \in 1..Len(ev) :
                IsFunctionResultEvent(ev[i]) =>
                   /\ i > 1
                   /\ IsFunctionCallEvent(ev[i - 1])
                   /\ ev[i - 1].round = ev[i].round
                   /\ \A j \in (i + 1)..Len(ev) : ev[j].round > ev[i].round
          /\ \A i, j \in 1..Len(ev) : i < j => ev[i].round <= ev[j].round
          /\ pc[s] = "InToolCall" =>
                /\ ev # <<>>
                /\ IsFunctionCallEvent(Last(ev))
                /\ Last(ev).round = round[s]

\* A result event followed by an event of the next round.
Wit_C7 ==
    \E s \in Conns :
       \E i \in 1..Len(events[s]) :
          /\ IsFunctionResultEvent(events[s][i])
          /\ i < Len(events[s])

\* ------------------------------------------------------------------ C8

\* C8 as claimed: every call that reaches the tool provider names a tool of
\* the registry and uses the fixed identity.
CE_C8 ==
    \A c \in providerCalls :
       /\ c.name \in function_defintions
       /\ c.linked_account_owner_id = LINKED_ACCOUNT_OWNER_ID

\* ------------------------------------------------------------------ C9

\* C9 as claimed: while one session waits on an outbound call, another
\* connection whose message has arrived can take its step.
CE_C9 ==
    \A s, t \in Conns :
       (s # t /\ InExternalCall(s) /\ pc[t] = "AwaitingInput" /\ connected[t]) =>
          ENABLED Receive(t)

\* ------------------------------------------------------------------ C10

\* C10: a timeout in AwaitingInput ends the task without any event, and a
\* task that has ended emits nothing.
Thm_C10 ==
    [][\A s \in Conns :
          /\ (pc[s] = "AwaitingInput" /\ exc'[s] = "TimeoutError"
                /\ pc'[s] # pc[s]) =>
                /\ pc'[s] = "Closed"
                /\ events'[s] = events[s]
          /\ pc[s] = "Closed" =>
                /\ pc'[s] = "Closed"
                /\ events'[s] = events[s]]_vars

\* A task ended by the timeout after an exchange that emitted events.
Wit_C10 ==
    \E s \in Conns :
       /\ pc[s] = "Closed"
       /\ exc[s] = "TimeoutError"
       /\ events[s] # <<>>

\* ------------------------------------------------------------------ C11

\* The places of the inner loop (main.py:100-177).
InnerLoop ==
    {"Reasoning", "InReasoningCall", "Content", "ToolBranch", "ToolDispatch",
     "InToolCall", "ToolResult", "Gating", "InGateCall", "GateFeedback"}

\* C11 as claimed: after a disconnect the inner handler, which sends the
\* error event, never gets the failure of a send on the closed channel.
CE_C11 ==
    \A s \in Conns : ~(pc[s] = "Errored" /\ exc[s] \in ChannelFailures)

\* C11 as amended: once the client is gone nothing more reaches it and the
\* task never waits for or starts on another message; a receive or the
\* inner handler's send of the error event on the closed channel ends the
\* task, and a failed send inside the inner loop goes to that handler first.
Thm_C11 ==
    [][\A s \in Conns :
          ~connected[s] =>
             /\ events'[s] = events[s]
             /\ pc'[s] # pc[s] => pc'[s] \notin {"AwaitingInput", "SendProcessing"}
             /\ (pc[s] \in {"AwaitingInput", "SendProcessing", "Errored"}
                   /\ pc'[s] # pc[s]) => pc'[s] = "Closed"
             /\ (pc[s] \in {"ToolBranch", "ToolResult", "GateFeedback"}
                   /\ pc'[s] # pc[s]) =>
                   pc'[s] = "Errored" /\ exc'[s] \in ChannelFailures]_vars

\* A task ended by the error event's send on a channel that was lost in the
\* middle of the inner loop.
Wit_C11 ==
    \E s \in Conns :
       /\ pc[s] = "Closed"
       /\ ~connected[s]
       /\ exc[s] = "RuntimeError"
       /\ Len(events[s]) >= 2

\* ------------------------------------------------------------------ C12

\* One connection is served and the other one's task has ended (its client
\* left before sending anything): main.py:79 and 191-193.
LiveInit ==
    /\ pc = [s \in Conns |-> IF s = "c1" THEN "AwaitingInput" ELSE "Closed"]
    /\ connected = [s \in Conns |-> s = "c1"]
    /\ message = [s \in Conns |-> NoneValue]
    /\ chat_history = [s \in Conns |-> <<>>]
    /\ response = [s \in Conns |-> NoResponse]
    /\ function_result = [s \in Conns |-> NoneValue]
    /\ grok = [s \in Conns |-> NoneValue]
    /\ exc = [s \in Conns |-> NoneValue]
    /\ events = [s \in Conns |-> <<>>]
    /\ round = [s \in Conns |-> 0]
    /\ request = [s \in Conns |-> NoRequest]
    /\ gateCalls = [s \in Conns |-> 0]
    /\ gateRequest = [s \in Conns |-> NoGateRequest]
    /\ viaRetry = [s \in Conns |-> FALSE]
    /\ blocker = NoneValue
    /\ calls = 0
    /\ providerCalls = {}

\* The steps of a task that has taken a message up: the event loop runs a
\* task that is ready, and the outbound calls come back (main.py:92-186).
\* The wait for a message (main.py:85-89) is the client's to end.
Progress(s) == pc[s] # "AwaitingInput" /\ TaskStep(s)

\* The served connection under a fair event loop and outbound calls that
\* come back, with a result or with an exception (every step of a task moves
\* its pc).
LiveSpec == LiveInit /\ [][Next]_vars /\ \A s \in Conns : WF_pc(Progress(s))

\* C12: a query put to the reasoning model gets its answer, an answer
\* without a tool request gets the gate's answer, and the gate's "yes" takes
\* the session out of the inner loop to the wait for the next message,
\* unless a call or the channel fails on the way (MaxCalls stops the model's
\* count of reasoning calls, not the program).
Thm_C12 ==
    \A s \in Conns :
       /\ (pc[s] = "Reasoning" /\ calls < MaxCalls)
             ~> (pc[s] = "ToolBranch" \/ exc[s] # NoneValue)
       /\ (pc[s] = "ToolBranch" /\ response[s].tool_calls = <<>>)
             ~> (pc[s] = "GateFeedback" \/ exc[s] # NoneValue)
       /\ (pc[s] = "GateFeedback" /\ grok[s] = "yes")
             ~> (pc[s] = "AwaitingInput" \/ exc[s] # NoneValue)

\* The gate's "yes" has ended an exchange that went through a Retry.
Wit_C12 ==
    \E s \in Conns :
       /\ pc[s] = "AwaitingInput"
       /\ round[s] = 2
       /\ exc[s] = NoneValue
       /\ events[s] # <<>>
       /\ IsFeedbackEvent(Last(events[s]))
       /\ Last(events[s]).content[2] = "yes"

\* ------------------------------------------------------------------ C13

\* The places of a gating round, from the final event on.
GatingPlaces == {"Gating", "InGateCall", "GateFeedback"}

\* C13 as claimed: whenever the session is in Gating the round's response
\* had a non-empty content and no tool call, and the assistant-message turn
\* of that content is the last turn of the history.
CE_C13 ==
    \A s \in Conns :
       pc[s] \in GatingPlaces =>
          /\ response[s].tool_calls = <<>>
          /\ response[s].content \notin {NoneValue, ""}
          /\ chat_history[s] # <<>>
          /\ Last(chat_history[s]) = [role |-> "assistant",
                                      content |-> response[s].content]

\* C13 as amended: whenever the session is in Gating the round's response
\* had no tool call; with a non-empty content its assistant-message turn
\* was appended in that round, with an empty one the round appended nothing.
Thm_C13 ==
    \A s \in Conns :
       pc[s] \in GatingPlaces =>
          /\ response[s].tool_calls = <<>>
          /\ response[s].content \notin {NoneValue, ""} =>
                chat_history[s] =
                   Append(request[s].history,
                          [role |-> "assistant", content |-> response[s].content])
          /\ response[s].content \in {NoneValue, ""} =>
                chat_history[s] = request[s].history

\* The gate is being called in a round whose response had no content.
Wit_C13 ==
    \E s \in Conns :
       /\ pc[s] = "InGateCall"
       /\ response[s].content = NoneValue
       /\ chat_history[s] # <<>>

\* ------------------------------------------------------------------ C14

IsPrefix(a, b) == Len(a) <= Len(b) /\ SubSeq(b, 1, Len(a)) = a

\* C14: the first reasoning call of every user message gets an empty
\* history, and from then on, until the next message is taken up, the
\* history only grows at its end.
Thm_C14 ==
    [][\A s \in Conns :
          /\ (pc'[s] = "InReasoningCall" /\ round'[s] = 1) =>
                request'[s].history = <<>>
          /\ pc[s] # "SendProcessing" =>
                IsPrefix(chat_history[s], chat_history'[s])]_vars

\* The first reasoning call of a later message of a connection whose
\* earlier exchange went to the gate with turns in its history.
Wit_C14 ==
    \E s \in Conns :
       /\ pc[s] = "InReasoningCall"
       /\ round[s] = 1
       /\ gateRequest[s].history # <<>>
       /\ request[s].history = <<>>

\* ------------------------------------------------------------------ C15

\* C15: the inner loop is left only on the gate's "yes" or on a raised
\* exception, and nothing of the program keeps a session that stands at the
\* top of the loop from its next reasoning call, whatever the number of
\* rounds made.
Thm_C15 ==
    [][\A s \in Conns :
          /\ (pc[s] \in InnerLoop /\ pc'[s] \notin InnerLoop) =>
                \/ /\ pc[s] = "GateFeedback"
                   /\ grok[s] = "yes"
                   /\ pc'[s] = "AwaitingInput"
                \/ /\ pc'[s] = "Errored"
                   /\ exc[s] = NoneValue
                   /\ exc'[s] # NoneValue
          /\ (pc[s] = "Reasoning" /\ LoopFree /\ calls < MaxCalls) =>
                ENABLED CallReasoning(s)]_vars

\* A session back at the top of the loop after tool requests in each of its
\* rounds, two or more.
Wit_C15 ==
    \E s \in Conns :
       /\ pc[s] = "Reasoning"
       /\ round[s] >= 2
       /\ Len(SelectSeq(chat_history[s], IsToolRequest)) = round[s]

\* ------------------------------------------------------------------ C16

\* The events of evs sent in round r.
EventsOfRound(evs, r) ==
    LET InRound(e) == e.round = r IN SelectSeq(evs, InRound)

\* The turns the current round has appended to the history of s.
TurnsOfRound(s) ==
    SubSeq(chat_history[s], Len(request[s].history) + 1, Len(chat_history[s]))

\* Session s is back at the top of the loop after a round that went through
\* the tool branch.
AfterToolRound(s) == pc[s] = "Reasoning" /\ round[s] >= 1 /\ ~viaRetry[s]

\* C16: of the tool calls of a response only the first one gets a
\* tool-request turn, a provider call and events, one of each in the round;
\* a second tool call leaves no trace in the history, at the provider or on
\* the channel.
Thm_C16 ==
    /\ \A p \in providerCalls : p.name # ModelSecondCall[1]
    /\ \A s \in Conns :
          /\ \A i \in 1..Len(chat_history[s]) :
                IsToolRequest(chat_history[s][i]) =>
                   /\ Len(chat_history[s][i].tool_calls) = 1
                   /\ chat_history[s][i].tool_calls[1].id > 0
          /\ \A i \in 1..Len(events[s]) :
                events[s][i].type = "progress" =>
                   \A k \in 1..Len(events[s][i].content) :
                      events[s][i].content[k] # ModelSecondCall[1]
          /\ AfterToolRound(s) =>
                LET tc == response[s].tool_calls[1]
                    requests == SelectSeq(TurnsOfRound(s), IsToolRequest)
                    announced == SelectSeq(EventsOfRound(events[s], round[s]),
                                           IsFunctionCallEvent)
                IN /\ requests = <<[role |-> "assistant", tool_calls |-> <<tc>>]>>
                   /\ Len(announced) = 1
                   /\ announced[1].content =
                         <<"Function Call", tc.function.name, tc.function.arguments>>
                   /\ \E p \in providerCalls :
                         /\ p.name = tc.function.name
                         /\ p.arguments = <<"parsed", tc.function.arguments>>

\* A round whose response carried two tool calls has gone through.
Wit_C16 ==
    \E s \in Conns : AfterToolRound(s) /\ Len(response[s].tool_calls) = 2

\* ------------------------------------------------------------------ C17

\* C17 as claimed: when an exchange is over, its last event is not a final
\* event.
CE_C17 ==
    \A s \in Conns :
       (pc[s] \in {"AwaitingInput", "Closed"} /\ events[s] # <<>>) =>
          Last(events[s]).type # "final"

\* C17 as amended: a final event is sent once in every gating round, before
\* the gate call; each feedback event stands right after the final event of
\* its round; what follows a final event, if anything does, is the feedback
\* event of its round or an error event; and a final event is the last one
\* only while its gating round lasts or after a failure that ended the task.
Thm_C17 ==
    \A s \in Conns :
       LET ev == events[s]
       IN /\ pc[s] \in GatingPlaces =>
                /\ ev # <<>>
                /\ Last(ev).type = "final"
                /\ Last(ev).round = round[s]
          /\ \A i \in 1..Len(ev) :
                ev[i].type = "final" =>
                   /\ \A j \in 1..Len(ev) :
                         (ev[j].type = "final" /\ ev[j].round = ev[i].round) => j = i
                   /\ i < Len(ev) =>
                         \/ IsFeedbackEvent(ev[i + 1]) /\ ev[i + 1].round = ev[i].round
                         \/ ev[i + 1].type = "error"
                   /\ i = Len(ev) =>
                         pc[s] \in GatingPlaces \cup {"Errored", "Closed"}
          /\ \A i \in 1..Len(ev) :
                IsFeedbackEvent(ev[i]) =>
                   /\ i > 1
                   /\ ev[i - 1].type = "final"
                   /\ ev[i - 1].round = ev[i].round

\* The second gating round of an exchange: two final events, the first one
\* followed by the gate's feedback.
Wit_C17 ==
    \E s \in Conns :
       LET IsFinal(e) == e.type = "final"
       IN /\ pc[s] = "InGateCall"
          /\ Len(SelectSeq(events[s], IsFinal)) = 2

\* ------------------------------------------------------------------ C18

\* The response of the current round of s has a content and a tool call.
ContentAndToolCall(s) ==
    /\ pc[s] \in AfterResponse \cup {"Reasoning"}
    /\ round[s] >= 1
    /\ response[s].content \notin {NoneValue, ""}
    /\ response[s].tool_calls # <<>>

\* C18: a response with both a content and a tool call makes the round send
\* the message event, then the call's and the result's events, and append
\* the assistant-message turn, the tool-request turn and the tool-result
\* turn with its id, in this order; the round sends no final event and does
\* not call the gate.
Thm_C18 ==
    \A s \in Conns :
       ContentAndToolCall(s) =>
          /\ pc[s] \notin GatingPlaces
          /\ gateCalls[s] = 0
          /\ \A i \in 1..Len(events[s]) :
                events[s][i].round = round[s] => events[s][i].type # "final"
          /\ pc[s] = "Reasoning" =>
                LET tc == response[s].tool_calls[1]
                    content == response[s].content
                    result == function_result[s]
                IN /\ TurnsOfRound(s) =
                         << [role |-> "assistant", content |-> content],
                            [role |-> "assistant", tool_calls |-> <<tc>>],
                            [role |-> "tool", tool_call_id |-> tc.id,
                             content |-> JsonDumps(result)] >>
                   /\ IsPrefix(request[s].history, chat_history[s])
                   /\ LET ev == EventsOfRound(events[s], round[s])
                      IN /\ Len(ev) = 3
                         /\ ev[1].type = "message" /\ ev[1].content = content
                         /\ IsFunctionCallEvent(ev[2])
                         /\ IsFunctionResultEvent(ev[3])

\* A round whose response had a content and a tool call has gone through.
Wit_C18 ==
    \E s \in Conns : ContentAndToolCall(s) /\ pc[s] = "Reasoning"

\* ------------------------------------------------------------------ C19

\* The "role: content" lines of the turns of h that are no tool requests.
RECURSIVE LinesOf(_)
LinesOf(h) ==
    IF h = <<>> THEN <<>>
    ELSE IF IsToolRequest(Head(h)) THEN LinesOf(Tail(h))
    ELSE <<<<Head(h).role, Head(h).content>>>> \o LinesOf(Tail(h))

\* C19: no turn of the history is a user turn, and the transcript handed to
\* the gate has one line for each assistant-message and tool-result turn, in
\* their order, none for a tool-request turn, and no line with the text of
\* the query the reasoning model was asked.
Thm_C19 ==
    \A s \in Conns :
       /\ \A i \in 1..Len(chat_history[s]) :
             chat_history[s][i].role \in {"assistant", "tool"}
       /\ pc[s] \in {"InGateCall", "GateFeedback"} =>
             LET q == gateRequest[s].query
                 h == gateRequest[s].history
             IN /\ h = chat_history[s]
                /\ q = LinesOf(h)
                /\ \A i \in 1..Len(q) :
                      /\ q[i][1] \in {"assistant", "tool"}
                      /\ q[i][2] # request[s].user
                      /\ q[i][2] \notin UserMessages

\* The gate is called with a transcript of a history that holds a
\* tool-request turn and its result.
Wit_C19 ==
    \E s \in Conns :
       /\ pc[s] = "InGateCall"
       /\ \E i \in 1..Len(chat_history[s]) : IsToolRequest(chat_history[s][i])
       /\ Len(gateRequest[s].query) >= 2

====
